---- MODULE Spec2Model ----
(***************************************************************************)
(* The connection pool of the sonic client (ConnPool, pool part of         *)
(* src/searchClient.go), its connections (Conn, src/unnamed/part_001) and  *)
(* the facade clients that use it (SearchClient, IngestClient).            *)
(*                                                                         *)
(* Goroutines are processes: NumCallers callers that use the pool through  *)
(* the Pooler interface or through a facade operation, NumClosers callers  *)
(* of Close, the warm-up goroutines started by checkMinIdleConns, the      *)
(* reaper and the dial prober (tryDial).  A step is one critical section   *)
(* under connsMu, one channel operation on queue or one atomic access.     *)
(* Time is a counter of seconds, the granularity of Conn.usedAt.           *)
(***************************************************************************)
EXTENDS Integers, Sequences, FiniteSets, TLC

\* The options explored (Options of the pool, scaled down): PoolSize from 1
\* to MaxPoolSize, MinIdleConns = MinIdle, and IdleT and MaxAge as the
\* non-zero values of IdleTimeout and MaxConnAge.
MaxPoolSize == 2
MinIdle == 1
IdleT == 1
MaxAge == 1

\* Bounds of the exploration.
NumCallers == 2
NumClosers == 2
MaxConns == 2
MaxTime == 1
MaxGets == 2
MaxTimeouts == 1

Callers == 1..NumCallers
Closers == 1..NumClosers
NoConn == 0

VARIABLES
    opt,            \* ConnPool.opt: PoolSize, MinIdleConns, IdleTimeout, MaxConnAge
    now,            \* time.Now(), in seconds
    connObj,        \* the Conn objects created so far: id -> fields
    conns,          \* ConnPool.conns
    idleConns,      \* ConnPool.idleConns
    poolSize,       \* ConnPool.poolSize
    idleConnsLen,   \* ConnPool.idleConnsLen
    queue,          \* number of tokens in ConnPool.queue (capacity opt.PoolSize)
    closed,         \* ConnPool._closed
    dialErrorsNum,  \* ConnPool.dialErrorsNum
    lastDialError,  \* ConnPool.lastDialError
    stats,          \* ConnPool.stats: Hits, Misses, Timeouts, StaleConns
    pc,             \* position of each caller
    cn,             \* the connection each caller works on (local cn / newcn)
    ret,            \* what the caller's last Get returned
    checkedOut,     \* connections returned by Get and not yet given to Put or Remove
    warm,           \* warm-up goroutines (checkMinIdleConns) by position
    reaper,         \* the reaper goroutine: pc, cn, n
    probers,        \* number of running tryDial goroutines
    closer,         \* position and last result of each caller of Close
    shutdowns,      \* how many times the body of Close ran
    panicked,       \* the process died of a nil dereference
    wire            \* the operation in progress on a connection's wire: a
                    \* Push, the handshake of NewConn, a Query or Suggest

vars == <<opt, now, connObj, conns, idleConns, poolSize, idleConnsLen, queue,
          closed, dialErrorsNum, lastDialError, stats, pc, cn, ret,
          checkedOut, warm, reaper, probers, closer, shutdowns, panicked,
          wire>>

----------------------------------------------------------------------------
\* Helpers on sequences.

Range(s) == {s[i] : i \in 1..Len(s)}

RECURSIVE IndexOf(_, _, _)
IndexOf(s, x, i) ==
    IF i > Len(s) THEN 0
    ELSE IF s[i] = x THEN i
    ELSE IndexOf(s, x, i + 1)

RemoveAt(s, i) == SubSeq(s, 1, i - 1) \o SubSeq(s, i + 1, Len(s))

Min(a, b) == IF a < b THEN a ELSE b
Max(a, b) == IF a > b THEN a ELSE b

----------------------------------------------------------------------------
\* Conn (src/unnamed/part_001).

\* NewConn after a successful handshake: usedAt and createdAt are time.Now().
NewConnObj(pooled) ==
    [pooled |-> pooled, closed |-> FALSE, createdAt |-> now, usedAt |-> now,
     buffered |-> 0]

\* Conn.Close: netConn closed and dropped, closed = true, Reader = nil.  The
\* field buffered of a closed connection is what its Reader held at that time;
\* nothing reads it (Buffered on a closed connection is a nil dereference).
ConnClose(objs, id) == [objs EXCEPT ![id].closed = TRUE]

NextId == Cardinality(DOMAIN connObj) + 1

----------------------------------------------------------------------------
\* ConnPool (src/searchClient.go).

\* isStaleConn with > in place of >=.
isStaleConn_Strict(id) ==
    \/ opt.IdleTimeout > 0 /\ now - connObj[id].usedAt > opt.IdleTimeout
    \/ opt.MaxConnAge > 0 /\ now - connObj[id].createdAt > opt.MaxConnAge

\* isStaleConn that finds every connection stale.
isStaleConn_Always(id) == TRUE

\* isStaleConn
isStaleConn(id) ==
    IF opt.IdleTimeout = 0 /\ opt.MaxConnAge = 0 THEN FALSE
    ELSE IF opt.IdleTimeout > 0 /\ now - connObj[id].usedAt >= opt.IdleTimeout THEN TRUE
    ELSE IF opt.MaxConnAge > 0 /\ now - connObj[id].createdAt >= opt.MaxConnAge THEN TRUE
    ELSE FALSE

\* checkMinIdleConns that does not look at poolSize.
checkMinIdleConns_NoCap(ps, il) ==
    IF opt.MinIdleConns = 0 THEN 0 ELSE Max(0, opt.MinIdleConns - il)

\* checkMinIdleConns: the number of warm-ups its loop starts, each of which
\* adds one to poolSize and to idleConnsLen.
checkMinIdleConns(ps, il) ==
    IF opt.MinIdleConns = 0 THEN 0
    ELSE Max(0, Min(opt.PoolSize - ps, opt.MinIdleConns - il))

\* removeConn that drops the first connection of conns, whichever it is.
removeConn_First(id, cs, ps, il) ==
    IF cs = <<>> THEN
        [conns |-> cs, poolSize |-> ps, idleConnsLen |-> il, spawned |-> 0]
    ELSE [conns |-> Tail(cs), poolSize |-> ps - 1, idleConnsLen |-> il,
          spawned |-> 0]

\* removeConn on the pool state (cs, ps, il): drops cn from conns; a pooled
\* cn that was found gives back its unit of poolSize and triggers
\* checkMinIdleConns.  The result is the new conns, poolSize, idleConnsLen
\* and the number of warm-ups started.
removeConn(id, cs, ps, il) ==
    LET i == IndexOf(cs, id, 1) IN
    IF i = 0 THEN
        [conns |-> cs, poolSize |-> ps, idleConnsLen |-> il, spawned |-> 0]
    ELSE IF connObj[id].pooled THEN
        LET k == checkMinIdleConns(ps - 1, il) IN
        [conns |-> RemoveAt(cs, i), poolSize |-> ps - 1 + k,
         idleConnsLen |-> il + k, spawned |-> k]
    ELSE
        [conns |-> RemoveAt(cs, i), poolSize |-> ps, idleConnsLen |-> il,
         spawned |-> 0]

\* A send on queue that never blocks.
QueueHasRoom_Always == TRUE

\* waitTurn / getTurn can send on queue only while the channel has room.
QueueHasRoom == queue < opt.PoolSize

\* Options with the staleness thresholds idle and age.
OptionsWith(idle, age) ==
    {[PoolSize |-> n, MinIdleConns |-> MinIdle, IdleTimeout |-> idle,
      MaxConnAge |-> age] : n \in 1..MaxPoolSize}

\* The option sets explored: the idle timeout alone, the maximum age alone,
\* and an idle timeout longer by one second, under which a connection is
\* still fresh one second after its creation.
Options ==
    OptionsWith(IdleT, 0) \cup OptionsWith(0, MaxAge) \cup OptionsWith(IdleT + 1, 0)

\* NewConnPool(opt) for some opt of opts.
NewConnPool(opts) ==
    /\ opt \in opts
    /\ now = 0
    /\ connObj = <<>>
    /\ conns = <<>>
    /\ idleConns = <<>>
    \* NewConnPool runs checkMinIdleConns on the empty pool.
    /\ poolSize = checkMinIdleConns(0, 0)
    /\ idleConnsLen = checkMinIdleConns(0, 0)
    /\ warm = [start |-> checkMinIdleConns(0, 0), add |-> {}, fail |-> 0]
    /\ queue = 0
    /\ closed = FALSE
    /\ dialErrorsNum = 0
    /\ lastDialError = "nil"
    /\ stats = [Hits |-> 0, Misses |-> 0, Timeouts |-> 0, StaleConns |-> 0]
    /\ pc = [c \in Callers |-> "idle"]
    /\ cn = [c \in Callers |-> NoConn]
    /\ ret = [c \in Callers |-> "none"]
    /\ checkedOut = {}
    \* go p.reaper(...) only if opt.IdleTimeout > 0 (IdleCheckFrequency is set)
    /\ reaper = [pc |-> IF opt.IdleTimeout > 0 THEN "wait" ELSE "off",
                 cn |-> NoConn, n |-> 0]
    /\ probers = 0
    /\ closer = [k \in Closers |-> [pc |-> "idle", ret |-> "none"]]
    /\ shutdowns = 0
    /\ panicked = FALSE

\* No operation on the wire is followed.
NoWire == [kind |-> "none"]

Init == NewConnPool(Options) /\ wire = NoWire


----------------------------------------------------------------------------
\* ConnPool.Get

poolVars == <<conns, idleConns, poolSize, idleConnsLen>>
dialVars == <<dialErrorsNum, lastDialError, probers>>
closeVars == <<closed, closer, shutdowns>>
envVars == <<opt, now, panicked>>

\* p.queue <- struct{}{}
TakeTurn == queue' = queue + 1

\* freeTurn: <-p.queue, which blocks on an empty channel
freeTurn ==
    /\ queue > 0
    /\ queue' = queue - 1

\* Get returns (nil, err) to caller c.
GetFails(c, err) ==
    /\ pc' = [pc EXCEPT ![c] = "failed"]
    /\ cn' = [cn EXCEPT ![c] = NoConn]
    /\ ret' = [ret EXCEPT ![c] = err]

\* Get returns (id, nil) to caller c.
GetReturns(c, id) ==
    /\ pc' = [pc EXCEPT ![c] = "held"]
    /\ cn' = [cn EXCEPT ![c] = id]
    /\ ret' = [ret EXCEPT ![c] = "ok"]
    /\ checkedOut' = checkedOut \cup {id}

\* Get up to the end of waitTurn's fast path: the closed test, the test of
\* ctx.Done() and the non-blocking send on queue.
GetStart(c) ==
    /\ pc[c] = "idle"
    \* idle callers are interchangeable: the first of them makes the call
    /\ \A d \in Callers : d < c => pc[d] # "idle"
    /\ stats.Hits + stats.Misses < MaxGets
    /\ stats.Timeouts < MaxTimeouts
    /\ IF closed THEN
            /\ GetFails(c, "ErrClosed")
            /\ UNCHANGED queue
       ELSE \E done \in BOOLEAN :
            IF done THEN
                /\ GetFails(c, "ctxErr")
                /\ UNCHANGED queue
            ELSE IF QueueHasRoom THEN
                /\ TakeTurn
                /\ pc' = [pc EXCEPT ![c] = "pop"]
                /\ ret' = [ret EXCEPT ![c] = "none"]
                /\ UNCHANGED cn
            ELSE
                /\ pc' = [pc EXCEPT ![c] = "waitTurn"]
                /\ ret' = [ret EXCEPT ![c] = "none"]
                /\ UNCHANGED <<cn, queue>>
    /\ UNCHANGED <<poolVars, dialVars, closeVars, envVars, connObj, stats,
                   checkedOut, warm, reaper>>

\* waitTurn, the blocking select: ctx.Done(), a send on queue, or the timer.
waitTurn(c) ==
    /\ pc[c] = "waitTurn"
    /\ \/ /\ GetFails(c, "ctxErr")
          /\ UNCHANGED <<queue, stats>>
       \/ /\ QueueHasRoom
          /\ TakeTurn
          /\ pc' = [pc EXCEPT ![c] = "pop"]
          /\ UNCHANGED <<cn, ret, stats>>
       \/ /\ GetFails(c, "ErrPoolTimeout")
          /\ stats' = [stats EXCEPT !.Timeouts = @ + 1]
          /\ UNCHANGED queue
    /\ UNCHANGED <<poolVars, dialVars, closeVars, envVars, connObj,
                   checkedOut, warm, reaper>>

\* popIdle that leaves the connection in idleConns.
idleAfterPop_Kept == idleConns

\* popIdle: p.idleConns = p.idleConns[:idx]
idleAfterPop == SubSeq(idleConns, 1, Len(idleConns) - 1)

\* Get, one turn of the loop.  popIdle under connsMu takes the last idle
\* connection and runs checkMinIdleConns; with no idle connection the loop
\* ends and a miss is counted.  A stale connection goes through CloseConn
\* (removeConnWithLock, closeConn) and the loop continues with the turn
\* kept; any other one is a hit and is returned.
popIdle(c) ==
    /\ pc[c] = "pop"
    /\ IF Len(idleConns) = 0 THEN
            /\ stats' = [stats EXCEPT !.Misses = @ + 1]
            /\ pc' = [pc EXCEPT ![c] = "dial"]
            /\ UNCHANGED <<cn, ret, checkedOut, poolVars, warm, connObj>>
       ELSE
            LET idx == Len(idleConns)
                id == idleConns[idx]
                k == checkMinIdleConns(poolSize, idleConnsLen - 1)
                r == removeConn(id, conns, poolSize + k, idleConnsLen - 1 + k)
            IN
            /\ idleConns' = idleAfterPop
            /\ IF isStaleConn(id) THEN
                    /\ conns' = r.conns
                    /\ poolSize' = r.poolSize
                    /\ idleConnsLen' = r.idleConnsLen
                    /\ warm' = [warm EXCEPT !.start = @ + k + r.spawned]
                    /\ connObj' = ConnClose(connObj, id)
                    /\ UNCHANGED <<pc, cn, ret, checkedOut, stats>>
               ELSE
                    /\ poolSize' = poolSize + k
                    /\ idleConnsLen' = idleConnsLen - 1 + k
                    /\ warm' = [warm EXCEPT !.start = @ + k]
                    /\ stats' = [stats EXCEPT !.Hits = @ + 1]
                    /\ GetReturns(c, id)
                    /\ UNCHANGED <<conns, connObj>>
    /\ UNCHANGED <<dialVars, closeVars, envVars, queue, reaper>>

\* Get that returns the error of newConn with its turn kept.
dialFailed_KeepsTurn(c, err) ==
    /\ GetFails(c, err)
    /\ UNCHANGED queue

\* Get after newConn returned an error: p.freeTurn(); return nil, err
dialFailed(c, err) ==
    /\ freeTurn
    /\ GetFails(c, err)

\* A dial failure that starts no prober.
DialerFails_NoProber ==
    /\ lastDialError' = "dialErr"
    /\ dialErrorsNum' = dialErrorsNum + 1
    /\ UNCHANGED probers

\* dialConn reports a dial failure: setLastDialError, the failure counter goes
\* up by one and the prober starts when it reaches opt.PoolSize.
DialerFails ==
    /\ lastDialError' = "dialErr"
    /\ dialErrorsNum' = dialErrorsNum + 1
    /\ probers' = IF dialErrorsNum + 1 = opt.PoolSize THEN probers + 1 ELSE probers

\* Get -> newConn -> dialConn: the closed test, the backoff test, Dialer and
\* Connector.  On an error Get frees its turn and returns the error.
getDial(c) ==
    /\ pc[c] = "dial"
    /\ IF closed THEN
            /\ dialFailed(c, "ErrClosed")
            /\ UNCHANGED <<dialVars, connObj>>
       ELSE IF dialErrorsNum >= opt.PoolSize THEN
            /\ dialFailed(c, lastDialError)
            /\ UNCHANGED <<dialVars, connObj>>
       ELSE
            \/ /\ DialerFails
               /\ dialFailed(c, "dialErr")
               /\ UNCHANGED connObj
            \/ /\ dialFailed(c, "connectorErr")
               /\ UNCHANGED <<dialVars, connObj>>
            \/ /\ NextId <= MaxConns
               /\ connObj' = connObj @@ (NextId :> NewConnObj(TRUE))
               /\ cn' = [cn EXCEPT ![c] = NextId]
               /\ pc' = [pc EXCEPT ![c] = "newConn"]
               /\ UNCHANGED <<dialVars, ret, queue>>
    /\ UNCHANGED <<poolVars, closeVars, envVars, stats, checkedOut, warm, reaper>>

\* newConn under connsMu: the connection joins conns; with the pool full it
\* becomes an overflow connection, otherwise it counts in poolSize.
newConn(c) ==
    /\ pc[c] = "newConn"
    /\ conns' = Append(conns, cn[c])
    /\ IF poolSize >= opt.PoolSize
       THEN /\ connObj' = [connObj EXCEPT ![cn[c]].pooled = FALSE]
            /\ UNCHANGED poolSize
       ELSE /\ poolSize' = poolSize + 1
            /\ UNCHANGED connObj
    /\ GetReturns(c, cn[c])
    /\ UNCHANGED <<idleConns, idleConnsLen, dialVars, closeVars, envVars, queue,
                   stats, warm, reaper>>


----------------------------------------------------------------------------
\* Use of a checked-out connection, ConnPool.Put and ConnPool.Remove.

\* The protocol exchanges of the holder c on its connection (Conn.write,
\* Conn.read) before it gives the connection up.  A closed connection
\* answers ErrClosed and nothing changes.  On an open one the exchange
\* consumes the whole reply ("ok": the reply may be an ERR line, the write may
\* fail: both leave the connection open), leaves reply bytes unread in the
\* Reader ("unread"), or read hits end of stream and calls Conn.Close ("eof").
Outcomes == {"ok", "unread", "eof"}
exchange(c, outcome) ==
    IF connObj[cn[c]].closed THEN connObj
    ELSE CASE outcome = "ok" -> connObj
           [] outcome = "unread" -> [connObj EXCEPT ![cn[c]].buffered = 1]
           [] outcome = "eof" -> ConnClose(connObj, cn[c])

\* The caller of a failed Get (a facade operation or a user of the pool)
\* returns the error.
getFailed(c) ==
    /\ pc[c] = "failed"
    /\ pc' = [pc EXCEPT ![c] = "idle"]
    /\ ret' = [ret EXCEPT ![c] = "none"]
    /\ UNCHANGED <<poolVars, dialVars, closeVars, envVars, connObj, queue, stats,
                   cn, checkedOut, warm, reaper>>

\* A facade operation (SearchClient.Query, IngestClient.Push, ...) returns
\* after its exchanges, whatever their outcome: the function ends without a
\* call of Put or Remove.
facadeReturn(c) ==
    /\ pc[c] = "held"
    /\ \E outcome \in Outcomes : connObj' = exchange(c, outcome)
    /\ pc' = [pc EXCEPT ![c] = "idle"]
    /\ cn' = [cn EXCEPT ![c] = NoConn]
    /\ ret' = [ret EXCEPT ![c] = "none"]
    /\ UNCHANGED <<poolVars, dialVars, closeVars, envVars, queue, stats, checkedOut, warm, reaper>>

\* Remove(cn, reason) by caller c on the connection objects objs:
\* removeConnWithLock, freeTurn, closeConn (reason is not used).
RemoveConn(c, objs) ==
    LET r == removeConn(cn[c], conns, poolSize, idleConnsLen) IN
    /\ conns' = r.conns
    /\ poolSize' = r.poolSize
    /\ idleConnsLen' = r.idleConnsLen
    /\ warm' = [warm EXCEPT !.start = @ + r.spawned]
    /\ freeTurn
    /\ connObj' = ConnClose(objs, cn[c])
    /\ pc' = [pc EXCEPT ![c] = "idle"]
    /\ cn' = [cn EXCEPT ![c] = NoConn]

\* Put that does not look at the Reader.
BadConn_Never(obj) == FALSE

\* Put, first test: if cn.Buffered() > 0
BadConn(obj) == obj.buffered > 0

\* Put by a user of the pool after exchanges that ended with outcome, the
\* tests before the lock: cn.Buffered() is cn.Reader.Buffered(), and
\* Conn.Close sets Reader to nil, so a closed connection makes Put panic.
\* Unread data and overflow connections go to Remove.
PutWith(c, outcome) ==
    /\ pc[c] = "held"
    /\ checkedOut' = checkedOut \ {cn[c]}
    /\ ret' = [ret EXCEPT ![c] = "none"]
    /\ LET objs == exchange(c, outcome) IN
        IF objs[cn[c]].closed THEN
            /\ panicked' = TRUE
            /\ pc' = [pc EXCEPT ![c] = "panic"]
            /\ connObj' = objs
            /\ UNCHANGED <<conns, poolSize, idleConnsLen, warm, queue, cn>>
        ELSE IF BadConn(objs[cn[c]]) \/ ~objs[cn[c]].pooled THEN
            /\ RemoveConn(c, objs)
            /\ UNCHANGED panicked
        ELSE
            /\ pc' = [pc EXCEPT ![c] = "putIdle"]
            /\ connObj' = objs
            /\ UNCHANGED <<conns, poolSize, idleConnsLen, warm, queue, cn,
                           panicked>>
    /\ UNCHANGED <<idleConns, dialVars, closeVars, opt, now, stats, reaper>>

Put(c) == \E outcome \in Outcomes : PutWith(c, outcome)

\* Put, the rest, with the connection placed under the idle connections.
putIdle_Bottom(c) ==
    /\ pc[c] = "putIdle"
    /\ idleConns' = <<cn[c]>> \o idleConns
    /\ idleConnsLen' = idleConnsLen + 1
    /\ freeTurn
    /\ pc' = [pc EXCEPT ![c] = "idle"]
    /\ cn' = [cn EXCEPT ![c] = NoConn]
    /\ UNCHANGED <<conns, poolSize, dialVars, closeVars, envVars, connObj,
                   stats, ret, checkedOut, warm, reaper>>

\* Put, the rest: under connsMu the connection joins idleConns; p.freeTurn().
putIdle(c) ==
    /\ pc[c] = "putIdle"
    /\ idleConns' = Append(idleConns, cn[c])
    /\ idleConnsLen' = idleConnsLen + 1
    /\ freeTurn
    /\ pc' = [pc EXCEPT ![c] = "idle"]
    /\ cn' = [cn EXCEPT ![c] = NoConn]
    /\ UNCHANGED <<conns, poolSize, dialVars, closeVars, envVars, connObj,
                   stats, ret, checkedOut, warm, reaper>>

\* Remove, called by a user of the pool after an error in its exchanges
\* (unread bytes in the Reader are not an error the holder sees: that
\* connection goes to Put).
Remove(c) ==
    /\ pc[c] = "held"
    /\ checkedOut' = checkedOut \ {cn[c]}
    /\ ret' = [ret EXCEPT ![c] = "none"]
    /\ \E outcome \in Outcomes \ {"unread"} : RemoveConn(c, exchange(c, outcome))
    /\ UNCHANGED <<idleConns, dialVars, closeVars, envVars, stats, reaper>>

----------------------------------------------------------------------------
\* ConnPool.Close

RECURSIVE CloseAll(_, _)
CloseAll(objs, ids) ==
    IF ids = <<>> THEN objs
    ELSE CloseAll(ConnClose(objs, Head(ids)), Tail(ids))

\* Close without the compare-and-swap: every call goes on to the shutdown.
Close_NoSwap(k) ==
    /\ closer[k].pc = "idle"
    /\ closed' = TRUE
    /\ closer' = [closer EXCEPT ![k].pc = "shutdown"]
    /\ UNCHANGED <<poolVars, dialVars, envVars, connObj, queue, stats, pc, cn,
                   ret, checkedOut, warm, reaper, shutdowns>>

\* Close, the compare-and-swap on _closed: the loser returns ErrClosed.
\* Each closer calls Close once.
Close(k) ==
    /\ closer[k].pc = "idle"
    \* idle closers are interchangeable: the first of them makes the call
    /\ \A j \in Closers : j < k => closer[j].pc # "idle"
    /\ IF closed
       THEN /\ closer' = [closer EXCEPT ![k] = [pc |-> "done", ret |-> "ErrClosed"]]
            /\ UNCHANGED closed
       ELSE /\ closed' = TRUE
            /\ closer' = [closer EXCEPT ![k].pc = "shutdown"]
    /\ UNCHANGED <<poolVars, dialVars, envVars, connObj, queue, stats, pc, cn,
                   ret, checkedOut, warm, reaper, shutdowns>>

\* Close, under connsMu: every connection of conns is closed, the
\* collections and counters are reset.  The call returns firstErr: nil, or
\* the first error of closing a connection.
closeShutdown(k) ==
    /\ closer[k].pc = "shutdown"
    /\ connObj' = CloseAll(connObj, conns)
    /\ conns' = <<>>
    /\ poolSize' = 0
    /\ idleConns' = <<>>
    /\ idleConnsLen' = 0
    /\ shutdowns' = shutdowns + 1
    /\ closer' = [closer EXCEPT ![k] = [pc |-> "done", ret |-> "firstErr"]]
    /\ UNCHANGED <<dialVars, envVars, closed, queue, stats, pc, cn, ret,
                   checkedOut, warm, reaper>>

----------------------------------------------------------------------------
\* Warm-up goroutines: checkMinIdleConns -> addIdleConn -> dialConn

\* addIdleConn -> dialConn: the closed test, the backoff test, Dialer and
\* Connector.
warmDial ==
    /\ warm.start > 0
    /\ IF closed \/ dialErrorsNum >= opt.PoolSize THEN
            /\ warm' = [warm EXCEPT !.start = @ - 1, !.fail = @ + 1]
            /\ UNCHANGED <<dialVars, connObj>>
       ELSE
            \/ /\ DialerFails
               /\ warm' = [warm EXCEPT !.start = @ - 1, !.fail = @ + 1]
               /\ UNCHANGED connObj
            \/ /\ warm' = [warm EXCEPT !.start = @ - 1, !.fail = @ + 1]
               /\ UNCHANGED <<dialVars, connObj>>
            \/ /\ NextId <= MaxConns
               /\ connObj' = connObj @@ (NextId :> NewConnObj(TRUE))
               /\ warm' = [warm EXCEPT !.start = @ - 1, !.add = @ \cup {NextId}]
               /\ UNCHANGED dialVars
    /\ UNCHANGED <<poolVars, closeVars, envVars, queue, stats, pc, cn, ret,
                   checkedOut, reaper>>

\* addIdleConn under connsMu: the connection joins conns and idleConns.
addIdleConn ==
    /\ \E id \in warm.add :
        /\ conns' = Append(conns, id)
        /\ idleConns' = Append(idleConns, id)
        /\ warm' = [warm EXCEPT !.add = @ \ {id}]
    /\ UNCHANGED <<poolSize, idleConnsLen, dialVars, closeVars, envVars, connObj,
                   queue, stats, pc, cn, ret, checkedOut, reaper>>

\* A failed warm-up that keeps the units it reserved.
warmFailed_KeepsUnits ==
    /\ warm.fail > 0
    /\ warm' = [warm EXCEPT !.fail = @ - 1]
    /\ UNCHANGED <<poolSize, idleConnsLen, conns, idleConns, dialVars, closeVars,
                   envVars, connObj, queue, stats, pc, cn, ret, checkedOut,
                   reaper>>

\* checkMinIdleConns, the goroutine after addIdleConn failed: the reserved
\* units of poolSize and idleConnsLen are given back.
warmFailed ==
    /\ warm.fail > 0
    /\ poolSize' = poolSize - 1
    /\ idleConnsLen' = idleConnsLen - 1
    /\ warm' = [warm EXCEPT !.fail = @ - 1]
    /\ UNCHANGED <<conns, idleConns, dialVars, closeVars, envVars, connObj, queue,
                   stats, pc, cn, ret, checkedOut, reaper>>


----------------------------------------------------------------------------
\* The reaper goroutine: reaper -> ReapStaleConns -> reapStaleConn

\* reaper, the select: on closedCh, or on a tick that finds the pool closed,
\* the goroutine returns; any other tick calls ReapStaleConns, which starts
\* with p.getTurn().
reaperTick ==
    /\ reaper.pc = "wait"
    /\ IF closed THEN
            /\ reaper' = [reaper EXCEPT !.pc = "done"]
            /\ UNCHANGED queue
       ELSE IF QueueHasRoom THEN
            /\ reaper' = [reaper EXCEPT !.pc = "reap", !.n = 0]
            /\ queue' = queue + 1
       ELSE
            /\ reaper' = [reaper EXCEPT !.pc = "getTurn", !.n = 0]
            /\ UNCHANGED queue
    /\ UNCHANGED <<poolVars, dialVars, closeVars, envVars, connObj, stats,
                   pc, cn, ret, checkedOut, warm>>

\* ReapStaleConns: p.getTurn() blocks while queue is full.
reaperGetTurn ==
    /\ reaper.pc = "getTurn"
    /\ QueueHasRoom
    /\ queue' = queue + 1
    /\ reaper' = [reaper EXCEPT !.pc = "reap"]
    /\ UNCHANGED <<poolVars, dialVars, closeVars, envVars, connObj, stats, pc, cn,
                   ret, checkedOut, warm>>

\* ReapStaleConns, one turn of the loop after getTurn.  reapStaleConn under
\* connsMu looks at idleConns[0] only: a stale one leaves idleConns and goes
\* through removeConn.  Then p.freeTurn(); with no connection reaped the loop
\* ends and n is added to stats.StaleConns.
reapStaleConn ==
    /\ reaper.pc = "reap"
    /\ queue > 0
    /\ queue' = queue - 1
    /\ IF Len(idleConns) = 0 \/ ~isStaleConn(idleConns[1]) THEN
            /\ reaper' = [pc |-> "wait", cn |-> NoConn, n |-> 0]
            /\ stats' = [stats EXCEPT !.StaleConns = @ + reaper.n]
            /\ UNCHANGED <<poolVars, warm>>
       ELSE
            LET id == idleConns[1]
                r == removeConn(id, conns, poolSize, idleConnsLen - 1) IN
            /\ idleConns' = Tail(idleConns)
            /\ conns' = r.conns
            /\ poolSize' = r.poolSize
            /\ idleConnsLen' = r.idleConnsLen
            /\ warm' = [warm EXCEPT !.start = @ + r.spawned]
            /\ reaper' = [reaper EXCEPT !.pc = "close", !.cn = id]
            /\ UNCHANGED stats
    /\ UNCHANGED <<dialVars, closeVars, envVars, connObj, pc, cn, ret,
                   checkedOut>>

\* ReapStaleConns: p.closeConn(cn); n++
reaperClose ==
    /\ reaper.pc = "close"
    /\ connObj' = ConnClose(connObj, reaper.cn)
    /\ reaper' = [pc |-> "getTurn", cn |-> NoConn, n |-> reaper.n + 1]
    /\ UNCHANGED <<poolVars, dialVars, closeVars, envVars, queue, stats, pc, cn,
                   ret, checkedOut, warm>>

----------------------------------------------------------------------------
\* The prober goroutine: tryDial

\* One turn of tryDial's loop: return if the pool is closed; a failed dial
\* stores the error and sleeps; a successful one resets dialErrorsNum.
tryDial ==
    /\ probers > 0
    /\ IF closed THEN
            /\ probers' = probers - 1
            /\ UNCHANGED <<dialErrorsNum, lastDialError>>
       ELSE \/ /\ lastDialError' = "dialErr"
               /\ UNCHANGED <<dialErrorsNum, probers>>
            \/ /\ dialErrorsNum' = 0
               /\ probers' = probers - 1
               /\ UNCHANGED lastDialError
    /\ UNCHANGED <<poolVars, closeVars, envVars, connObj, queue, stats, pc, cn,
                   ret, checkedOut, warm, reaper>>

----------------------------------------------------------------------------
\* Time passes.
Tick ==
    /\ now < MaxTime
    /\ now' = now + 1
    /\ UNCHANGED <<poolVars, dialVars, closeVars, opt, panicked, connObj, queue,
                   stats, pc, cn, ret, checkedOut, warm, reaper>>

CallerStep(c) ==
    \/ GetStart(c) \/ waitTurn(c) \/ popIdle(c)
    \/ getDial(c) \/ newConn(c) \/ getFailed(c)
    \/ facadeReturn(c)
    \/ Put(c) \/ putIdle(c) \/ Remove(c)

WarmStep == warmDial \/ addIdleConn \/ warmFailed

ReaperStep == reaperTick \/ reaperGetTurn \/ reapStaleConn \/ reaperClose

\* The pool in use, never closed.  A panic ends the process: no goroutine
\* takes another step.
Next ==
    /\ ~panicked
    /\ \/ \E c \in Callers : CallerStep(c)
       \/ WarmStep
       \/ ReaperStep
       \/ tryDial
       \/ Tick
    /\ UNCHANGED wire

Spec == Init /\ [][Next]_vars

\* The pool in use and closed, with no staleness threshold set (no reaper,
\* no eviction, so time plays no part).
NextClose ==
    /\ ~panicked
    /\ \/ \E c \in Callers : CallerStep(c)
       \/ \E k \in Closers : Close(k) \/ closeShutdown(k)
       \/ WarmStep
       \/ tryDial
    /\ UNCHANGED wire

SpecClose ==
    NewConnPool(OptionsWith(0, 0)) /\ wire = NoWire /\ [][NextClose]_vars

----------------------------------------------------------------------------
\* Properties of the pool.

\* The positions of a caller between the send on queue in its Get and the
\* end of its Put or Remove.
TokenPcs == {"pop", "dial", "newConn", "held", "putIdle"}

\* Checked-out connections whose holder returned without Put or Remove.
Leaked == checkedOut \ {cn[c] : c \in Callers}

C1_Bounded == Cardinality(checkedOut) <= opt.PoolSize

C1_Blocked ==
    Cardinality(checkedOut) = opt.PoolSize =>
        /\ checkedOut' \subseteq checkedOut
        /\ \A c \in Callers :
            pc[c] \in {"idle", "waitTurn"} =>
                /\ pc'[c] \in {"idle", "waitTurn", "failed"}
                /\ pc'[c] = "failed" => ret'[c] \in {"ErrPoolTimeout", "ctxErr"}

\* C1: at most opt.PoolSize connections are checked out at any moment; while
\* that many are checked out no step hands out another one, and a Get that
\* is called or is waiting stays blocked or ends with the pool timeout or the
\* context's error.
C1_Capacity == []C1_Bounded /\ [][C1_Blocked]_vars

\* The pool of the largest size is exhausted and a waiting Get timed out.
C1_Witness ==
    /\ opt.PoolSize = MaxPoolSize
    /\ Cardinality(checkedOut) = opt.PoolSize
    /\ \E c \in Callers : pc[c] = "failed" /\ ret[c] = "ErrPoolTimeout"

C2_Disjoint ==
    /\ Range(idleConns) \cap checkedOut = {}
    /\ \A i, j \in 1..Len(idleConns) : i # j => idleConns[i] # idleConns[j]
    /\ \A c \in Callers : cn[c] # NoConn => cn[c] \notin Range(idleConns)
    /\ \A c, d \in Callers : c # d /\ cn[c] # NoConn => cn[c] # cn[d]
    /\ reaper.cn # NoConn =>
        /\ reaper.cn \notin checkedOut
        /\ reaper.cn \notin Range(idleConns)
        /\ \A c \in Callers : cn[c] # reaper.cn

C2_Step ==
    /\ \A c \in Callers :
        pc[c] # "held" /\ pc'[c] = "held" => cn'[c] \notin checkedOut
    /\ \A id \in DOMAIN connObj :
        reaper' # reaper /\ ~connObj[id].closed /\ connObj'[id].closed =>
            id \notin checkedOut /\ \A c \in Callers : cn[c] # id

\* C2: a connection is never idle and checked out at once, never in the hands
\* of two callers, never returned by Get while it is still checked out, and
\* the reaper closes no connection that is checked out.
C2_SingleOwner == []C2_Disjoint /\ [][C2_Step]_vars

\* A caller holds a connection it got from the idle list while the reaper is
\* about to close another one that it reaped.
C2_Witness ==
    /\ reaper.pc = "close"
    /\ stats.Hits > 0 /\ stats.Misses > 0
    /\ \E c \in Callers : pc[c] = "held" /\ cn[c] # reaper.cn

\* C3: every connection a facade operation obtained has been handed to Put or
\* Remove when the operation returns: no connection is checked out without a
\* caller that still works on it.
C3_FacadeHandsBack == Leaked = {}

\* C4: the tokens in queue are those of the Get calls that took one and whose
\* connection has not gone through Put or Remove (the callers inside Get,
\* holding a connection or inside Put or Remove, and the connections left
\* checked out by operations that returned), plus the one the reaper holds
\* during a scan.
C4_TokenAccounting ==
    queue = Cardinality({c \in Callers : pc[c] \in TokenPcs})
            + Cardinality(Leaked)
            + (IF reaper.pc = "reap" THEN 1 ELSE 0)

\* The errors Get returns.
GetErrors == {"ErrClosed", "ctxErr", "ErrPoolTimeout", "dialErr", "connectorErr"}

\* A caller whose Get failed has no connection and is not among the holders
\* of the tokens in queue: these are the callers past their send on queue (one
\* whose Put panicked included) and the connections left checked out.
C5_NoTokenKept ==
    /\ \A c \in Callers :
        pc[c] = "failed" => cn[c] = NoConn /\ ret[c] \in GetErrors
    /\ queue = Cardinality({c \in Callers : pc[c] \in TokenPcs \cup {"panic"}})
               + Cardinality(Leaked)

C5_Step ==
    /\ \A c \in Callers :
        pc[c] # "failed" /\ pc'[c] = "failed" =>
            /\ cn'[c] = NoConn
            /\ ret'[c] \in GetErrors
            /\ checkedOut' = checkedOut
            /\ queue' = queue - (IF pc[c] \in TokenPcs THEN 1 ELSE 0)
            /\ stats'.Timeouts =
                 stats.Timeouts + (IF ret'[c] = "ErrPoolTimeout" THEN 1 ELSE 0)
    /\ stats'.Timeouts # stats.Timeouts =>
        \E c \in Callers :
            pc[c] = "waitTurn" /\ pc'[c] = "failed" /\ ret'[c] = "ErrPoolTimeout"

\* C5: a Get that returns an error returns no connection and leaves queue as
\* it was before the call (a token taken is given back, the caller keeps
\* none); stats.Timeouts goes up by exactly one when the error is the pool
\* timeout and does not move in any other step.
C5_GetError == []C5_NoTokenKept /\ [][C5_Step]_vars

\* One Get failed on its dial after taking a token, another one timed out
\* waiting for it.
C5_Witness ==
    /\ stats.Timeouts = 1
    /\ \E c, d \in Callers :
        /\ pc[c] = "failed" /\ ret[c] = "ErrPoolTimeout"
        /\ pc[d] = "failed" /\ ret[d] \in {"dialErr", "connectorErr"}

\* Staleness as the pool's options define it.
C6_Stale(id) ==
    \/ opt.IdleTimeout > 0 /\ now - connObj[id].usedAt >= opt.IdleTimeout
    \/ opt.MaxConnAge > 0 /\ now - connObj[id].createdAt >= opt.MaxConnAge

C6_Step ==
    LET n == Len(idleConns)
        top == idleConns[n]
    IN  (/\ n > 0
         /\ \E c \in Callers : pc[c] = "pop"
         /\ idleConns' = SubSeq(idleConns, 1, n - 1)
         /\ reaper' = reaper
         /\ C6_Stale(top)) =>
            /\ connObj'[top].closed
            /\ top \notin Range(conns')
            /\ top \notin Range(idleConns')
            /\ top \notin checkedOut'
            /\ \A c \in Callers : cn'[c] # top
            /\ idleConnsLen' - (warm'.start - warm.start) = idleConnsLen - 1
            /\ queue' = queue
            /\ pc' = pc
            /\ stats'.Hits = stats.Hits

\* C6: when Get pops a connection that is stale at that moment, the step
\* closes it and takes it out of conns and of the idle count, hands it to
\* nobody, keeps the caller's token and leaves the caller in the loop.
C6_StaleNeverReturned == [][C6_Step]_vars

\* With no reaper and before any Get has returned, a caller inside the loop
\* of Get has evicted a connection.
C6_Witness ==
    /\ opt.IdleTimeout = 0
    /\ stats.Hits + stats.Misses = 0
    /\ \E c \in Callers : pc[c] = "pop"
    /\ \E id \in DOMAIN connObj : connObj[id].closed /\ id \notin Range(conns)

C7_NotIdle ==
    \A id \in DOMAIN connObj :
        connObj[id].buffered > 0 =>
            /\ id \notin Range(idleConns)
            /\ \A c \in Callers : pc[c] = "putIdle" => cn[c] # id

C7_Step ==
    /\ \A c \in Callers :
        (/\ pc[c] = "held"
         /\ ~connObj[cn[c]].closed
         /\ cn[c] \in checkedOut /\ cn[c] \notin checkedOut'
         /\ connObj'[cn[c]].buffered > 0) =>
            /\ connObj'[cn[c]].closed
            /\ cn[c] \notin Range(conns')
            /\ cn[c] \notin Range(idleConns')
            /\ queue' = queue - 1
            /\ pc'[c] = "idle"
    /\ \A id \in DOMAIN connObj :
        connObj[id].buffered > 0 => id \notin checkedOut' \ checkedOut

\* C7: Put of an open connection with unread bytes in its Reader closes it,
\* leaves it out of idleConns and of conns and takes one token out of queue;
\* a connection with unread bytes is never idle and no Get returns it.
C7_PutUnread == []C7_NotIdle /\ [][C7_Step]_vars

\* A connection was discarded by Put for its unread bytes and a later Get
\* returned another connection.
C7_Witness ==
    \E id \in DOMAIN connObj :
        /\ connObj[id].closed /\ connObj[id].buffered > 0
        /\ id \notin Range(conns)
        /\ \E c \in Callers : pc[c] = "held" /\ cn[c] # id

C8_Once ==
    /\ shutdowns <= 1
    /\ Cardinality({k \in Closers :
                       closer[k].pc = "shutdown" \/ closer[k].ret = "firstErr"}) <= 1
    /\ (\A k \in Closers : closer[k].pc = "done") => shutdowns = 1
    /\ shutdowns > 0 => closed

C8_Step ==
    /\ \A k \in Closers :
        closed /\ closer[k].pc = "idle" /\ closer'[k] # closer[k] =>
            /\ closer'[k] = [pc |-> "done", ret |-> "ErrClosed"]
            /\ UNCHANGED <<conns, idleConns, poolSize, idleConnsLen, connObj,
                           queue, closed, shutdowns, stats, checkedOut, warm,
                           dialErrorsNum, lastDialError>>
    /\ \A c \in Callers :
        closed /\ pc[c] = "idle" /\ pc'[c] # "idle" =>
            /\ pc'[c] = "failed"
            /\ ret'[c] = "ErrClosed"
            /\ cn'[c] = NoConn
            /\ queue' = queue

\* C8: among the calls of Close exactly one runs the shutdown; a Close on a
\* closed pool returns ErrClosed and changes nothing; a Get called on a closed
\* pool returns ErrClosed and takes no token.
C8_CloseOnce == []C8_Once /\ [][C8_Step]_vars

\* A second Close returned ErrClosed while the first is still before its
\* shutdown, and a Get was refused with ErrClosed.
C8_Witness ==
    /\ \E j, k \in Closers :
        closer[j].pc = "shutdown" /\ closer[k].ret = "ErrClosed"
    /\ \E c \in Callers : pc[c] = "failed" /\ ret[c] = "ErrClosed"

\* C9: once Close has run its shutdown and every warm-up and every dial of a
\* Get that was in flight has finished, conns and idleConns are empty and
\* every connection created is closed.
C9_CloseClosesAll ==
    (/\ shutdowns > 0
     /\ warm.start = 0 /\ warm.add = {} /\ warm.fail = 0
     /\ \A c \in Callers : pc[c] \notin {"dial", "newConn"}) =>
        /\ conns = <<>>
        /\ idleConns = <<>>
        /\ \A id \in DOMAIN connObj : connObj[id].closed

\* C10: every connection of idleConns is a connection of conns.
C10_IdleInConns == Range(idleConns) \subseteq Range(conns)

C11_Bounded ==
    /\ poolSize <= opt.PoolSize
    /\ \A id \in Range(idleConns) : connObj[id].pooled
    /\ \A c \in Callers : pc[c] = "putIdle" => connObj[cn[c]].pooled

C11_Step ==
    \A c \in Callers :
        /\ (pc[c] = "newConn" /\ pc'[c] = "held") =>
                IF poolSize >= opt.PoolSize
                THEN ~connObj'[cn'[c]].pooled /\ poolSize' = poolSize
                ELSE connObj'[cn'[c]].pooled /\ poolSize' = poolSize + 1
        /\ (/\ pc[c] = "held"
            /\ ~connObj[cn[c]].pooled /\ ~connObj[cn[c]].closed
            /\ cn[c] \notin checkedOut'
            /\ ~panicked') =>
                /\ pc'[c] = "idle"
                /\ connObj'[cn[c]].closed
                /\ cn[c] \notin Range(conns')
                /\ cn[c] \notin Range(idleConns')
                /\ poolSize' = poolSize

\* C11: poolSize, warm-up reservations included, never exceeds opt.PoolSize; a
\* connection that Get dials while poolSize is at opt.PoolSize becomes an
\* overflow connection (pooled = false) and leaves poolSize as it is; an
\* overflow connection never enters idleConns: Put closes it and drops it
\* from conns.
C11_PoolSizeCap == []C11_Bounded /\ [][C11_Step]_vars

\* With poolSize at opt.PoolSize an overflow connection was dialed and later
\* discarded by Put or Remove.
C11_Witness ==
    /\ poolSize = opt.PoolSize
    /\ \E id \in DOMAIN connObj :
        ~connObj[id].pooled /\ connObj[id].closed /\ id \notin Range(conns)

\* C12: no Put ends in a panic: a Put of a checked-out connection that is
\* already closed (by an end-of-stream read, or by Close) discards it and
\* frees its turn, and the process goes on.
C12_NoCrash == ~panicked

----------------------------------------------------------------------------
\* The wire codec: text payloads, escaping and chunking (IngestClient.Push,
\* src/unnamed/part_000, and Conn.splitText, src/unnamed/part_001).
\*
\* A string is a sequence of bytes, a byte one of: "b" a backslash, "l" a
\* newline, "q" a double quote, "n" the letter n (any other one-byte
\* character), "h" the leading byte of a multi-byte character, "t" a
\* continuation byte.

MaxLen == 3
MaxCmdBytes == 6

Bytes == {"b", "l", "q", "n", "h", "t"}

RECURSIVE Strings(_)
Strings(n) ==
    IF n = 0 THEN {<<>>}
    ELSE LET shorter == Strings(n - 1) IN
         shorter \cup {Append(s, b) : s \in {x \in shorter : Len(x) = n - 1},
                                      b \in Bytes}

\* The payloads given to Push.
Payloads == Strings(MaxLen)

\* The values of cmdMaxBytes: what strconv.Atoi made of the server's STARTED
\* line, negative numbers included.
CmdBytes == (0 - 2)..MaxCmdBytes

\* strings.Replace(s, old, new, -1) for a pattern old of one byte.
RECURSIVE Replace(_, _, _)
Replace(s, old, new) ==
    IF s = <<>> THEN <<>>
    ELSE (IF Head(s) = old THEN new ELSE <<Head(s)>>)
         \o Replace(Tail(s), old, new)

\* patternReplace: the passes of PATTERNS in their order.
patternReplace(text) ==
    Replace(Replace(Replace(text, "b", <<"b", "b">>),
                    "l", <<"b", "n">>),
            "q", <<"b", "q">>)

\* c.cmdMaxBytes/2: Go's division truncates toward zero.
GoDiv2(n) == IF n >= 0 THEN n \div 2 ELSE 0 - ((0 - n) \div 2)

\* utf8.RuneStart for every byte.
RuneStart_Any(b) == TRUE

\* utf8.RuneStart: the byte is not a continuation byte.
RuneStart(b) == b # "t"

\* splitText, the inner loop: for !utf8.RuneStart(longString[r]) { r-- }.
\* r is the 0-based index; the result is -1 when the index leaves the string
\* (index out of range: a panic).
RECURSIVE walkBack(_, _)
walkBack(s, r) ==
    IF r < 0 THEN 0 - 1
    ELSE IF RuneStart(s[r + 1]) THEN r
    ELSE walkBack(s, r - 1)

\* splitText, the outer loop from the state (l, r, splits) with step m.  An
\* iteration starts with r = l + m, so one that walks r back to l leads to
\* the same l and r again: the loop never ends ("hang": splits grows by an
\* empty chunk each time).
RECURSIVE splitLoop(_, _, _, _, _)
splitLoop(s, m, l, r, splits) ==
    IF r >= Len(s) THEN
        [kind |-> "ok", chunks |-> Append(splits, SubSeq(s, l + 1, Len(s)))]
    ELSE LET r2 == walkBack(s, r) IN
        IF r2 < 0 THEN [kind |-> "panic", chunks |-> splits]
        ELSE IF r2 = l THEN [kind |-> "hang", chunks |-> splits]
        ELSE splitLoop(s, m, r2, r2 + m, Append(splits, SubSeq(s, l + 1, r2)))

\* Conn.splitText on a connection with c.cmdMaxBytes = maxBytes
splitText(longString, maxBytes) ==
    splitLoop(longString, GoDiv2(maxBytes), 0, GoDiv2(maxBytes), <<>>)

\* A Push of some payload on a connection with some cmdMaxBytes, after Get.
PushStart ==
    {[kind |-> "push", step |-> "start", payload |-> p, text |-> p,
      cmdMaxBytes |-> n, chunks |-> <<>>, sent |-> <<>>] :
        p \in Payloads, n \in CmdBytes}

\* Push: text = patternReplace(text)
pushEscape ==
    /\ wire.kind = "push" /\ wire.step = "start"
    /\ wire' = [wire EXCEPT !.text = patternReplace(wire.text),
                            !.step = "escaped"]

\* Push: chunks := conn.splitText(text)
pushSplit ==
    /\ wire.kind = "push" /\ wire.step = "escaped"
    /\ LET res == splitText(wire.text, wire.cmdMaxBytes) IN
        wire' = [wire EXCEPT !.chunks = res.chunks,
                             !.step = IF res.kind = "ok" THEN "send"
                                      ELSE res.kind]

\* Push, one turn of the loop over chunks: the command line with the chunk
\* between double quotes is written and the answer read.  A failed write or
\* read ends Push with the error, the other chunks are not sent.
pushSend ==
    /\ wire.kind = "push" /\ wire.step = "send"
    /\ LET i == Len(wire.sent) + 1 IN
        \/ wire' = [wire EXCEPT !.step = "error"]
        \/ wire' = [wire EXCEPT !.sent = Append(@, wire.chunks[i]),
                                !.step = "error"]
        \/ wire' = [wire EXCEPT !.sent = Append(@, wire.chunks[i]),
                                !.step = IF i = Len(wire.chunks) THEN "done"
                                         ELSE "send"]

PushStep == pushEscape \/ pushSplit \/ pushSend

----------------------------------------------------------------------------
\* The handshake (NewConn, src/unnamed/part_001).
\*
\* A line is a sequence of symbols: the words "STARTED" and "ERR", "w" any
\* other word of letters, the digits "1" and "2", "sp" a space, "(" and ")".
\* Symbols that follow each other without a separator form one field.

MaxLineLen == 5

Symbols == {"STARTED", "ERR", "w", "1", "2", "sp", "(", ")"}

\* The lines of k symbols the server may answer with.
Lines(k) == [1..k -> Symbols]

\* read: strings.HasPrefix(str, "ERR ")
IsErrLine(line) == Len(line) >= 2 /\ line[1] = "ERR" /\ line[2] = "sp"

\* The separators of NewConn's FieldsFunc: unicode.IsSpace(r), '(' and ')'.
IsSeparator(sym) == sym \in {"sp", "(", ")"}

\* strings.FieldsFunc(line, f): the maximal runs of symbols that are not
\* separators, in order; field is the run being read.
RECURSIVE FieldsFrom(_, _)
FieldsFrom(line, field) ==
    IF line = <<>> THEN (IF field = <<>> THEN <<>> ELSE <<field>>)
    ELSE IF IsSeparator(Head(line)) THEN
        (IF field = <<>> THEN <<>> ELSE <<field>>) \o FieldsFrom(Tail(line), <<>>)
    ELSE FieldsFrom(Tail(line), Append(field, Head(line)))

FieldsFunc(line) == FieldsFrom(line, <<>>)

\* strconv.Atoi succeeds on a field: it is made of digits only.
IsInt(field) == field # <<>> /\ \A i \in 1..Len(field) : field[i] \in {"1", "2"}

\* strconv.Atoi: the decimal value of a field of digits.
RECURSIVE Atoi(_)
Atoi(field) ==
    IF field = <<>> THEN 0
    ELSE 10 * Atoi(SubSeq(field, 1, Len(field) - 1))
         + (IF field[Len(field)] = "1" THEN 1 ELSE 2)

\* NewConn on a freshly dialed netConn.
HandshakeStart ==
    [kind |-> "handshake", step |-> "write", closed |-> FALSE, reads |-> 0,
     line |-> <<>>, ret |-> "none", cmdMaxBytes |-> 0]

\* NewConn: conn.write("START ch password") fails and NewConn returns the
\* error, or succeeds.
handshakeWrite ==
    /\ wire.kind = "handshake" /\ wire.step = "write"
    /\ \/ wire' = [wire EXCEPT !.step = "done", !.ret = "error"]
       \/ wire' = [wire EXCEPT !.step = "read1"]

\* NewConn: _, err = conn.read(), the CONNECTED line; its error is
\* overwritten by the next read.  A read that meets io.EOF closes the
\* connection.
handshakeRead1 ==
    /\ wire.kind = "handshake" /\ wire.step = "read1"
    /\ \E outcome \in {"line", "err", "eof"} :
        wire' = [wire EXCEPT !.step = "read2", !.reads = 1,
                             !.closed = (outcome = "eof")]

\* NewConn: line, err := conn.read(), the STARTED line, and the parsing of
\* its last field.
handshakeRead2 ==
    /\ wire.kind = "handshake" /\ wire.step = "read2"
    /\ IF wire.closed THEN
            wire' = [wire EXCEPT !.step = "done", !.ret = "error"]
       ELSE
        \/ wire' = [wire EXCEPT !.step = "done", !.ret = "error", !.reads = 2,
                                !.line = <<"transport failure">>]
        \/ \E k \in 0..MaxLineLen : \E line \in Lines(k) :
            LET ss == FieldsFunc(line) IN
            wire' = [wire EXCEPT
                !.reads = 2,
                !.line = line,
                !.step = IF ~IsErrLine(line) /\ ss = <<>> THEN "panic"
                         ELSE "done",
                !.ret = IF IsErrLine(line) THEN "error"
                        ELSE IF ss = <<>> THEN "none"
                        ELSE IF IsInt(ss[Len(ss)]) THEN "conn"
                        ELSE "error",
                !.cmdMaxBytes = IF ~IsErrLine(line) /\ ss # <<>>
                                   /\ IsInt(ss[Len(ss)])
                                THEN Atoi(ss[Len(ss)]) ELSE 0]

HandshakeStep == handshakeWrite \/ handshakeRead1 \/ handshakeRead2

----------------------------------------------------------------------------
\* The search commands (Conn.Query, Conn.Suggest and getSearchResults,
\* src/unnamed/part_001; SearchClient.Query, src/searchClient.go).
\*
\* An answer is a sequence of symbols: the words "EVENT", "QUERY", "SUGGEST"
\* and "ERR", "w" any other word, "sp" a space.

MaxEventLen == 7

EventSymbols == {"EVENT", "QUERY", "SUGGEST", "ERR", "w", "sp"}

\* The lines of k symbols the server may answer a search command with.
EventLines(k) == [1..k -> EventSymbols]

\* strings.Split(line, " "): the parts between the spaces, one more than
\* there are spaces, empty parts included; part is the one being read.
RECURSIVE SplitFrom(_, _)
SplitFrom(line, part) ==
    IF line = <<>> THEN <<part>>
    ELSE IF Head(line) = "sp" THEN <<part>> \o SplitFrom(Tail(line), <<>>)
    ELSE SplitFrom(Tail(line), Append(part, Head(line)))

Split(line) == SplitFrom(line, <<>>)

\* strings.HasPrefix(line, "EVENT "+eventType)
HasEventPrefix(line, eventType) ==
    Len(line) >= 3 /\ line[1] = "EVENT" /\ line[2] = "sp" /\ line[3] = eventType

\* getSearchResults: strings.Split(line, " ")[3:] for a line with the prefix,
\* a panic (slice bounds out of range) when there are fewer than three parts.
getSearchResults(line, eventType) ==
    IF HasEventPrefix(line, eventType) THEN
        LET parts == Split(line) IN
        IF Len(parts) < 3 THEN [kind |-> "panic", results |-> <<>>]
        ELSE [kind |-> "ok", results |-> SubSeq(parts, 4, Len(parts))]
    ELSE [kind |-> "ok", results |-> <<>>]

\* Query or Suggest on a connection.
SearchStart ==
    {[kind |-> "search", op |-> o, step |-> "write", reads |-> 0,
      line |-> <<>>, ret |-> "none", results |-> <<>>] :
        o \in {"QUERY", "SUGGEST"}}

\* Query, Suggest: the write of the command fails and its error is returned,
\* or succeeds.
searchWrite ==
    /\ wire.kind = "search" /\ wire.step = "write"
    /\ \/ wire' = [wire EXCEPT !.step = "done", !.ret = "error"]
       \/ wire' = [wire EXCEPT !.step = "read1"]

\* Query, Suggest: the first read (PENDING); its error is returned.
searchRead1 ==
    /\ wire.kind = "search" /\ wire.step = "read1"
    /\ \/ wire' = [wire EXCEPT !.step = "done", !.ret = "error", !.reads = 1]
       \/ wire' = [wire EXCEPT !.step = "read2", !.reads = 1]

\* Query, Suggest: the second read (EVENT) and getSearchResults.
searchRead2 ==
    /\ wire.kind = "search" /\ wire.step = "read2"
    /\ \/ wire' = [wire EXCEPT !.step = "done", !.ret = "error", !.reads = 2,
                               !.line = <<"transport failure">>]
       \/ \E k \in 0..MaxEventLen : \E line \in EventLines(k) :
            IF IsErrLine(line) THEN
                wire' = [wire EXCEPT !.step = "done", !.ret = "error",
                                     !.reads = 2, !.line = line]
            ELSE LET res == getSearchResults(line, wire.op) IN
                wire' = [wire EXCEPT
                    !.reads = 2,
                    !.line = line,
                    !.step = IF res.kind = "panic" THEN "panic" ELSE "done",
                    !.ret = IF res.kind = "panic" THEN "none" ELSE "results",
                    !.results = res.results]

SearchStep == searchWrite \/ searchRead1 \/ searchRead2

----------------------------------------------------------------------------
\* The life of one connection under reads and writes (Conn.read, Conn.write,
\* Conn.Close, src/unnamed/part_001).

MaxOps == 3

\* What Reader.ReadLine gives read: a full line, a line with the prefix
\* "ERR ", io.EOF, or another error of the socket (a reset, a timeout).
ReadOutcomes == {"line", "errLine", "EOF", "otherErr"}

\* A connection after its handshake: calls counts the reads and writes made
\* on it, touched those that reached the socket, last is what the last call
\* returned.
ConnStart ==
    [kind |-> "conn", closed |-> FALSE, calls |-> 0, touched |-> 0,
     last |-> "none"]

\* read: ErrClosed on a closed connection; otherwise ReadLine, and
\* c.Close() when its error is io.EOF; the error is returned as it is; a
\* line with the prefix "ERR " becomes an error of the application.
connRead ==
    /\ wire.kind = "conn" /\ wire.calls < MaxOps
    /\ IF wire.closed THEN
            wire' = [wire EXCEPT !.calls = @ + 1, !.last = "ErrClosed"]
       ELSE \E outcome \in ReadOutcomes :
            wire' = [wire EXCEPT
                !.calls = @ + 1,
                !.touched = @ + 1,
                !.closed = (outcome = "EOF"),
                !.last = CASE outcome = "line" -> "line"
                           [] outcome = "errLine" -> "appErr"
                           [] outcome = "EOF" -> "EOF"
                           [] outcome = "otherErr" -> "otherErr"]

\* write: ErrClosed on a closed connection; otherwise netConn.Write, whose
\* error is returned.
connWrite ==
    /\ wire.kind = "conn" /\ wire.calls < MaxOps
    /\ IF wire.closed THEN
            wire' = [wire EXCEPT !.calls = @ + 1, !.last = "ErrClosed"]
       ELSE \E ok \in BOOLEAN :
            wire' = [wire EXCEPT !.calls = @ + 1, !.touched = @ + 1,
                                 !.last = IF ok THEN "written" ELSE "writeErr"]

\* Close: netConn is closed and set to nil, closed = true, Reader = nil.
connClose ==
    /\ wire.kind = "conn" /\ wire.calls < MaxOps
    /\ wire' = [wire EXCEPT !.calls = @ + 1, !.closed = TRUE, !.last = "closed"]

ConnStep == connRead \/ connWrite \/ connClose

\* The pool's variables, which the operations on the wire leave alone.
poolState == <<opt, now, connObj, conns, idleConns, poolSize, idleConnsLen,
               queue, closed, dialErrorsNum, lastDialError, stats, pc, cn, ret,
               checkedOut, warm, reaper, probers, closer, shutdowns, panicked>>

\* One operation on the wire of a connection, from its start to its return.
InitWire ==
    /\ NewConnPool({[PoolSize |-> 1, MinIdleConns |-> 0, IdleTimeout |-> 0,
                     MaxConnAge |-> 0]})
    /\ wire \in PushStart \cup {HandshakeStart} \cup SearchStart \cup {ConnStart}

NextWire ==
    /\ PushStep \/ HandshakeStep \/ SearchStep \/ ConnStep
    /\ UNCHANGED poolState

SpecWire == InitWire /\ [][NextWire]_vars

----------------------------------------------------------------------------
\* Properties of the wire codec.

RECURSIVE Concat(_)
Concat(ss) == IF ss = <<>> THEN <<>> ELSE Head(ss) \o Concat(Tail(ss))

\* C13: when splitText returns, the chunks in order concatenate to its input,
\* every chunk after the first is non-empty and begins at a byte that is not
\* a continuation byte (no boundary inside a multi-byte character), and for
\* an input that begins at a character every chunk does.
C13_Chunks ==
    (wire.kind = "push" /\ wire.step \in {"send", "error", "done"}) =>
        /\ Concat(wire.chunks) = wire.text
        /\ \A i \in 2..Len(wire.chunks) :
            wire.chunks[i] # <<>> /\ wire.chunks[i][1] # "t"
        /\ (wire.text # <<>> /\ wire.text[1] # "t") =>
            \A i \in 1..Len(wire.chunks) :
                wire.chunks[i] # <<>> /\ wire.chunks[i][1] # "t"

\* splitText returned several chunks, one of them shorter than the target
\* length because its end was moved back to the start of a character.
C13_Witness ==
    /\ wire.kind = "push" /\ wire.step = "send"
    /\ Len(wire.chunks) >= 3
    /\ \E i \in 1..(Len(wire.chunks) - 1) :
        /\ Len(wire.chunks[i]) < wire.cmdMaxBytes \div 2
        /\ wire.text[Len(Concat(SubSeq(wire.chunks, 1, i))) + 2] = "t"

\* One left-to-right pass over the original text that escapes each of its
\* characters once.
RECURSIVE OnePass(_)
OnePass(s) ==
    IF s = <<>> THEN <<>>
    ELSE (CASE Head(s) = "b" -> <<"b", "b">>
            [] Head(s) = "l" -> <<"b", "n">>
            [] Head(s) = "q" -> <<"b", "q">>
            [] OTHER -> <<Head(s)>>)
         \o OnePass(Tail(s))

\* The quoted text s holds no unescaped backslash, newline or double quote:
\* read from the left, every backslash is followed by the character it
\* escapes, and no newline or quote stands on its own.
RECURSIVE WellEscaped(_)
WellEscaped(s) ==
    IF s = <<>> THEN TRUE
    ELSE IF Head(s) = "b" THEN
        /\ Len(s) >= 2
        /\ s[2] \in {"b", "n", "q"}
        /\ WellEscaped(Tail(Tail(s)))
    ELSE Head(s) \notin {"l", "q"} /\ WellEscaped(Tail(s))

\* The three passes of patternReplace give what one pass over the original
\* text gives, and the whole escaped text is well escaped.
C14_OnePass ==
    (wire.kind = "push" /\ wire.step # "start") =>
        /\ wire.text = OnePass(wire.payload)
        /\ WellEscaped(wire.text)

\* C14: the quoted text of every PUSH line sent, each chunk of a split
\* payload included, holds no unescaped backslash, newline or double quote.
C14_SentEscaped ==
    wire.kind = "push" => \A i \in 1..Len(wire.sent) : WellEscaped(wire.sent[i])

\* The line is of the STARTED form ending in a parenthesized integer: the
\* word STARTED, a space, and at its end "(", digits, ")".
StartedForm(line) ==
    /\ Len(line) >= 5
    /\ line[1] = "STARTED" /\ line[2] = "sp"
    /\ line[Len(line)] = ")"
    /\ \E k \in 3..(Len(line) - 2) :
        /\ line[k] = "("
        /\ \A i \in (k + 1)..(Len(line) - 1) : line[i] \in {"1", "2"}

\* The integer between the last parentheses of a line of the STARTED form.
RECURSIVE TrailingInt(_)
TrailingInt(line) ==
    LET body == SubSeq(line, 1, Len(line) - 1) IN
    IF body = <<>> \/ body[Len(body)] \notin {"1", "2"} THEN 0
    ELSE LET d == IF body[Len(body)] = "1" THEN 1 ELSE 2 IN
         10 * TrailingInt(body) + d

\* C15: NewConn never crashes; once it has read its second line it returns a
\* connection exactly when that line is of the STARTED form ending in a
\* parenthesized integer N, with cmdMaxBytes = N, and an error otherwise.
C15_Handshake ==
    wire.kind = "handshake" =>
        /\ wire.step # "panic"
        /\ (wire.step = "done" /\ wire.reads = 2) =>
            /\ wire.ret = "conn" <=> StartedForm(wire.line)
            /\ wire.ret = "conn" => wire.cmdMaxBytes = TrailingInt(wire.line)
            /\ wire.ret # "conn" => wire.ret = "error"

\* The whitespace-delimited fields of a line; field is the one being read.
RECURSIVE WsFieldsFrom(_, _)
WsFieldsFrom(line, field) ==
    IF line = <<>> THEN (IF field = <<>> THEN <<>> ELSE <<field>>)
    ELSE IF Head(line) = "sp" THEN
        (IF field = <<>> THEN <<>> ELSE <<field>>) \o WsFieldsFrom(Tail(line), <<>>)
    ELSE WsFieldsFrom(Tail(line), Append(field, Head(line)))

WsFields(line) == WsFieldsFrom(line, <<>>)

\* The line is an EVENT line of the given kind.
IsEventOf(line, kind) ==
    LET fs == WsFields(line) IN
    Len(fs) >= 2 /\ fs[1] = <<"EVENT">> /\ fs[2] = <<kind>>

\* C16: Query and Suggest never crash; an error on the first read is returned
\* without a second read; after two reads that did not fail the result is
\* the list of the fields after the third one when the second line is an
\* EVENT line of the kind requested, and the empty list otherwise.
C16_Results ==
    wire.kind = "search" =>
        /\ wire.step # "panic"
        /\ (wire.step = "done" /\ wire.reads = 1) => wire.ret = "error"
        /\ (wire.step = "done" /\ wire.ret = "results") =>
            /\ wire.reads = 2
            /\ LET fs == WsFields(wire.line) IN
               wire.results = IF IsEventOf(wire.line, wire.op)
                              THEN SubSeq(fs, 4, Len(fs)) ELSE <<>>

\* What holds of the code: a second line without the prefix "EVENT " and the
\* kind requested gives the empty list and no error; one with the prefix and
\* at least three parts between single spaces gives the parts after the third.
C16_AsCoded ==
    (wire.kind = "search" /\ wire.step = "done" /\ wire.ret = "results") =>
        /\ wire.reads = 2
        /\ ~HasEventPrefix(wire.line, wire.op) => wire.results = <<>>
        /\ (IsEventOf(wire.line, wire.op) /\ Split(wire.line) = WsFields(wire.line))
            => wire.results = SubSeq(WsFields(wire.line), 4, Len(WsFields(wire.line)))

----------------------------------------------------------------------------
\* Properties of the pool, continued.

\* A Get that returns an idle connection (a hit) leaves the connection's
\* usedAt at the current time.
C17_Step ==
    \A c \in Callers :
        (pc[c] = "pop" /\ pc'[c] = "held") => connObj'[cn'[c]].usedAt = now'

\* C17: usedAt of a connection is set to the current time by every Get that
\* returns it from the idle stack, so that the idle timeout runs from the
\* last checkout.
C17_UsedAtOnGet == [][C17_Step]_vars

\* A step in which the dialer and the connector succeed, in Get or in a
\* warm-up, leaves the dial-failure counter at zero.
C18_Step ==
    (\/ \E c \in Callers : pc[c] = "dial" /\ pc'[c] = "newConn"
     \/ warm'.add \ warm.add # {})
    => dialErrorsNum' = 0

\* C18: the dial-failure counter counts consecutive failures: every
\* successful dial, in Get or in a warm-up, resets it to zero.
C18_ResetOnSuccess == [][C18_Step]_vars

\* The prober's dial succeeds: tryDial stores zero in dialErrorsNum.
tryDialSucceeds == tryDial /\ ~closed /\ dialErrorsNum' = 0 /\ UNCHANGED wire

\* The pool with Close, under the hypothesis of the backoff: the prober
\* goroutine keeps running (the Go scheduler is fair to it: it sleeps one
\* second between attempts) and its dialer eventually succeeds.
SpecBackoff ==
    /\ NewConnPool(OptionsWith(0, 0))
    /\ wire = NoWire
    /\ [][NextClose]_vars
    /\ WF_vars(tryDialSucceeds)

\* In backoff an error has been recorded, and the prober runs while the pool
\* is open.
C19_Recorded ==
    dialErrorsNum >= opt.PoolSize =>
        /\ lastDialError # "nil"
        /\ ~closed => probers > 0

\* In backoff a Get that found no idle connection, and a warm-up, fail
\* without a dial: no connection is made and the failure counter and the
\* recorded error stay; Get returns the recorded error and frees its turn.
\* The step that takes the counter to opt.PoolSize starts a prober.  Out of
\* backoff a Get that fails at this point has called the dialer.
C19_Step ==
    /\ \A c \in Callers :
        (pc[c] = "dial" /\ pc'[c] # "dial" /\ ~closed) =>
            IF dialErrorsNum >= opt.PoolSize THEN
                /\ pc'[c] = "failed"
                /\ ret'[c] = lastDialError /\ ret'[c] # "nil"
                /\ queue' = queue - 1
                /\ UNCHANGED <<dialErrorsNum, lastDialError, probers, connObj>>
            ELSE pc'[c] = "failed" => ret'[c] \in {"dialErr", "connectorErr"}
    /\ (warm'.start < warm.start /\ ~closed /\ dialErrorsNum >= opt.PoolSize) =>
            /\ warm'.fail = warm.fail + 1
            /\ UNCHANGED <<dialErrorsNum, lastDialError, probers, connObj>>
    /\ (dialErrorsNum < opt.PoolSize /\ dialErrorsNum' >= opt.PoolSize) =>
            probers' = probers + 1

\* C19: dial backoff.  While dialErrorsNum >= opt.PoolSize the recorded dial
\* error is not nil and Get and the warm-ups fail with it without a dial, Get
\* freeing its turn; the prober starts when the counter reaches opt.PoolSize;
\* and a pool in backoff that stays open gets its counter back to zero
\* (unless the process has died), after which Get dials again.
C19_Backoff ==
    /\ []C19_Recorded
    /\ [][C19_Step]_vars
    /\ (dialErrorsNum >= opt.PoolSize) ~> (dialErrorsNum = 0 \/ closed \/ panicked)

\* An open pool in backoff, its prober running, where a Get has returned the
\* recorded dial error.
C19_Witness ==
    /\ ~closed /\ ~panicked
    /\ dialErrorsNum >= opt.PoolSize
    /\ probers > 0
    /\ \E c \in Callers : pc[c] = "failed" /\ ret[c] = lastDialError
    /\ stats.Misses = MaxGets

\* The top of the idle stack: the connection idled last.
Top(s) == s[Len(s)]

\* A Put that keeps a connection (pooled, open, nothing unread) places it on
\* top of the idle stack and frees its turn; a Get that returns an idle
\* connection returns the top of the stack, which is not stale, and counts a
\* hit; a connection leaves the stack otherwise only if it is stale.
C20_Step ==
    /\ (/\ Len(idleConns') < Len(idleConns)
        /\ \A c \in Callers : ~(pc[c] = "pop" /\ pc'[c] = "held")) =>
            \A id \in Range(idleConns) \ Range(idleConns') : C6_Stale(id)
    /\ \A c \in Callers :
        /\ (pc[c] = "held" /\ pc'[c] = "putIdle") =>
            /\ connObj'[cn[c]].pooled
            /\ ~connObj'[cn[c]].closed
            /\ connObj'[cn[c]].buffered = 0
        /\ (pc[c] = "putIdle" /\ pc'[c] # "putIdle") =>
            /\ idleConns' = Append(idleConns, cn[c])
            /\ Top(idleConns') = cn[c]
            /\ queue' = queue - 1
        /\ (pc[c] = "pop" /\ pc'[c] = "held") =>
            /\ idleConns # <<>>
            /\ cn'[c] = Top(idleConns)
            /\ ~C6_Stale(cn'[c])
            /\ idleConns' = SubSeq(idleConns, 1, Len(idleConns) - 1)
            /\ stats'.Hits = stats.Hits + 1

\* C20: idle connections are served most recently idled first: Put places a
\* kept connection on top of the idle stack and frees its turn, Get returns
\* the top of the stack when it is not stale, so with no step in between the
\* Get after a Put returns the connection just put, and Get never returns a
\* connection that lies under a fresh one.
C20_MostRecentFirst == [][C20_Step]_vars

\* Connection 1 was put back on top of connection 2, which was made after it,
\* and the Get that followed returned connection 1 and left 2 in the stack.
C20_Witness ==
    /\ idleConns = <<2>>
    /\ stats.Hits = 2 /\ stats.Misses = 0
    /\ \E c \in Callers :
        /\ pc[c] = "held" /\ cn[c] = 1
        /\ \A d \in Callers \ {c} : pc[d] = "idle"

\* The sequence s without the element x.
Without(s, x) == SelectSeq(s, LAMBDA y : y # x)

\* The warm-ups due in a pool with ps units of poolSize and il of the idle
\* count.
TopUp(ps, il) ==
    IF opt.MinIdleConns = 0 \/ ps >= opt.PoolSize \/ il >= opt.MinIdleConns THEN 0
    ELSE IF opt.PoolSize - ps < opt.MinIdleConns - il THEN opt.PoolSize - ps
    ELSE opt.MinIdleConns - il

\* Caller c gives up its connection through Remove in this step (directly,
\* or from Put for unread data or an overflow connection).
Removes(c) ==
    /\ pc[c] = "held" /\ pc'[c] = "idle"
    /\ cn[c] \in checkedOut /\ cn[c] \notin checkedOut'

\* A Remove of the checked-out connection id: id leaves conns, poolSize goes
\* down by one exactly for a pooled id, the top-up then reserves its warm-ups,
\* one turn is freed, id is closed, and no other connection changes place or
\* state.
C21_Step ==
    \A c \in Callers : Removes(c) =>
        LET id == cn[c]
            unit == IF connObj[id].pooled THEN 1 ELSE 0
            k == IF connObj[id].pooled
                 THEN TopUp(poolSize - 1, idleConnsLen) ELSE 0
        IN
        /\ id \in Range(conns)
        /\ conns' = Without(conns, id)
        /\ poolSize' = poolSize - unit + k
        /\ idleConnsLen' = idleConnsLen + k
        /\ warm'.start = warm.start + k
        /\ queue' = queue - 1
        /\ connObj'[id].closed
        /\ idleConns' = idleConns
        /\ \A j \in DOMAIN connObj \ {id} :
            /\ connObj'[j].closed = connObj[j].closed
            /\ connObj'[j].pooled = connObj[j].pooled

\* C21: Remove of a checked-out connection takes it out of the owned set,
\* gives back its unit of poolSize exactly when it counted against capacity,
\* runs the minimum-idle top-up, frees exactly one turn and closes it; every
\* other connection keeps its place and its open or closed state.
C21_RemoveFrame == [][C21_Step]_vars

\* A pooled connection has gone through Remove (no eviction can have
\* happened at time 0) while another connection of the pool stays open.
C21_Witness ==
    /\ now = 0 /\ ~panicked
    /\ \E id \in DOMAIN connObj :
        /\ connObj[id].closed /\ connObj[id].pooled
        /\ id \notin Range(conns)
        /\ \E j \in Range(conns) : j # id /\ ~connObj[j].closed

\* The warm-ups in flight: started, dialed and not yet added, failed and not
\* yet accounted.
InFlight == warm.start + Cardinality(warm.add) + warm.fail

\* NewConnPool has started the warm-ups due on the empty pool, each with its
\* unit of poolSize and of the idle count.
C22_Created ==
    /\ conns = <<>> /\ idleConns = <<>>
    /\ warm.start = TopUp(0, 0) /\ InFlight = warm.start
    /\ poolSize = TopUp(0, 0)
    /\ idleConnsLen = TopUp(0, 0)

\* The steps of the warm-ups.  An idle pop (a hit, or Get closing the stale
\* connection it popped, which is a removal too) starts the warm-ups due after the
\* idle count went down by one, and a removal of a pooled connection those
\* due after poolSize went down by one, each start adding one to poolSize
\* and to the idle count.  A warm-up that ends well adds its connection at
\* the end of conns and of idleConns and leaves queue and the counters; one
\* that fails takes one from poolSize and one from the idle count.
C22_Step ==
    /\ \A c \in Callers :
        /\ (pc[c] = "pop" /\ pc'[c] = "held") =>
            LET k == TopUp(poolSize, idleConnsLen - 1) IN
            /\ warm'.start = warm.start + k
            /\ poolSize' = poolSize + k
            /\ idleConnsLen' = idleConnsLen - 1 + k
    /\ (/\ idleConns # <<>>
        /\ idleConns' = SubSeq(idleConns, 1, Len(idleConns) - 1)
        /\ ~connObj[Top(idleConns)].closed
        /\ connObj'[Top(idleConns)].closed) =>
            LET id == Top(idleConns)
                k1 == TopUp(poolSize, idleConnsLen - 1)
                unit == IF connObj[id].pooled /\ id \in Range(conns)
                        THEN 1 ELSE 0
                k2 == IF unit = 1
                      THEN TopUp(poolSize + k1 - 1, idleConnsLen - 1 + k1)
                      ELSE 0
            IN
            /\ warm'.start = warm.start + k1 + k2
            /\ poolSize' = poolSize + k1 - unit + k2
            /\ idleConnsLen' = idleConnsLen - 1 + k1 + k2
            /\ \E c \in Callers : pc[c] = "pop" /\ pc'[c] = "pop"
    /\ (reaper.pc = "reap" /\ reaper'.pc = "close") =>
            LET id == idleConns[1]
                unit == IF connObj[id].pooled /\ id \in Range(conns)
                        THEN 1 ELSE 0
                k == IF unit = 1 THEN TopUp(poolSize - 1, idleConnsLen - 1)
                     ELSE 0
            IN
            /\ warm'.start = warm.start + k
            /\ poolSize' = poolSize - unit + k
            /\ idleConnsLen' = idleConnsLen - 1 + k
    /\ warm'.start > warm.start =>
            \/ \E c \in Callers : pc[c] = "pop" \/ Removes(c)
            \/ reaper.pc = "reap"
    /\ warm'.add \ warm.add # {} =>
            /\ UNCHANGED <<queue, poolSize, idleConnsLen, conns, idleConns>>
            /\ warm'.start = warm.start - 1
    /\ warm.add \ warm'.add # {} =>
            \E id \in warm.add :
                /\ warm'.add = warm.add \ {id}
                /\ conns' = Append(conns, id)
                /\ idleConns' = Append(idleConns, id)
                /\ UNCHANGED <<queue, poolSize, idleConnsLen>>
    /\ warm'.fail > warm.fail =>
            /\ warm'.start = warm.start - 1
            /\ UNCHANGED <<queue, poolSize, idleConnsLen, conns, idleConns>>
    /\ warm'.fail < warm.fail =>
            /\ warm'.fail = warm.fail - 1
            /\ poolSize' = poolSize - 1
            /\ idleConnsLen' = idleConnsLen - 1
            /\ UNCHANGED <<queue, conns, idleConns>>

C23_Step ==
    /\ (reaper.pc # "reap" /\ reaper'.pc = "reap") =>
            /\ reaper.pc \in {"wait", "getTurn"}
            /\ queue' = queue + 1
            /\ reaper'.n = (IF reaper.pc = "wait" THEN 0 ELSE reaper.n)
    /\ (reaper.pc = "reap" /\ reaper'.pc # "reap") =>
            /\ queue' = queue - 1
            /\ reaper'.pc \in {"close", "wait"}
            /\ connObj' = connObj
    /\ (reaper.pc = "reap" /\ reaper'.pc = "close") =>
            /\ idleConns # <<>>
            /\ C6_Stale(idleConns[1])
            /\ reaper'.cn = idleConns[1]
            /\ idleConns' = Tail(idleConns)
            /\ conns' = Without(conns, idleConns[1])
            /\ reaper'.n = reaper.n
            /\ stats' = stats
    /\ (reaper.pc = "reap" /\ reaper'.pc = "wait") =>
            /\ idleConns = <<>> \/ ~C6_Stale(idleConns[1])
            /\ idleConns' = idleConns /\ conns' = conns
            /\ stats'.StaleConns = stats.StaleConns + reaper.n
    /\ (reaper.pc = "close" /\ reaper'.pc # "close") =>
            /\ reaper'.pc = "getTurn"
            /\ reaper'.n = reaper.n + 1
            /\ connObj'[reaper.cn].closed
            /\ \A j \in DOMAIN connObj \ {reaper.cn} : connObj'[j] = connObj[j]
            /\ queue' = queue
            /\ idleConns' = idleConns /\ conns' = conns
    /\ stats'.StaleConns # stats.StaleConns =>
            reaper.pc = "reap" /\ reaper'.pc = "wait"

\* C23: a reaper pass evicts only stale connections and only idleConns[0],
\* the oldest end of the idle list: each turn of its loop takes one turn of
\* the queue, looks at idleConns[0], removes it from idleConns and conns if
\* it is stale, frees the turn and only then closes it; the pass ends at the
\* first idleConns[0] that is not stale or on an empty idleConns, holds no
\* turn when it ends and adds its evictions to stats.StaleConns.
C23_ReaperPass == [][C23_Step]_vars

\* A pass has ended after evicting a connection: its evictions are counted
\* and the reaper waits for its next tick.
C23_Witness ==
    /\ reaper.pc = "wait"
    /\ stats.StaleConns >= 1
    /\ \E id \in DOMAIN connObj : connObj[id].closed /\ id \notin Range(conns)

----------------------------------------------------------------------------
\* The pool with its reaper, in use and closed, with no minimum of idle
\* connections set (MinIdleConns = 0: checkMinIdleConns returns at once and
\* no warm-up ever runs).

OptionsReap ==
    {[PoolSize |-> n, MinIdleConns |-> 0, IdleTimeout |-> IdleT,
      MaxConnAge |-> 0] : n \in 1..MaxPoolSize}

NextReap ==
    /\ ~panicked
    /\ \/ \E c \in Callers : CallerStep(c)
       \/ \E k \in Closers : Close(k) \/ closeShutdown(k)
       \/ ReaperStep
       \/ tryDial
       \/ Tick
    /\ UNCHANGED wire

SpecReap == NewConnPool(OptionsReap) /\ wire = NoWire /\ [][NextReap]_vars

\* Close has returned to the caller that won the compare-and-swap.
CloseReturned ==
    \E k \in Closers : closer[k].pc = "done" /\ closer[k].ret = "firstErr"

\* The steps of caller c that are the pool's own code running on, with no
\* decision of the caller in them.
PoolCode(c) ==
    waitTurn(c) \/ popIdle(c) \/ getDial(c) \/ newConn(c) \/ putIdle(c)

\* C24: the reaper stops at pool close.  Once Close has returned, the reaper
\* goroutine has ended, or it can take its next step, or a caller is inside
\* Get or Put and the pool's code goes on: the reaper is never left waiting
\* on callers that keep the connections they hold.
C24_ReaperStops ==
    CloseReturned =>
        \/ reaper.pc \in {"off", "done"}
        \/ ENABLED (ReaperStep /\ UNCHANGED wire)
        \/ \E c \in Callers : ENABLED (PoolCode(c) /\ UNCHANGED wire)

----------------------------------------------------------------------------
\* Properties of a connection's reads and writes.

\* A read that got a failure of the socket has closed the connection.
C25_Closed ==
    (wire.kind = "conn" /\ wire.last \in {"EOF", "otherErr"}) => wire.closed

\* closed is terminal; a read or write on a closed connection returns
\* ErrClosed and does not reach the socket; an ERR line and a write error
\* leave the connection open.
C25_Step ==
    wire.kind = "conn" =>
        /\ wire.closed => wire'.closed
        /\ (wire.closed /\ wire'.calls > wire.calls /\ wire'.last # "closed") =>
            wire'.last = "ErrClosed" /\ wire'.touched = wire.touched
        /\ (~wire.closed /\ wire'.calls > wire.calls
            /\ wire'.last \in {"appErr", "writeErr"}) => ~wire'.closed

\* C25: a read that gets a transport failure from the socket closes the
\* connection before it returns the error; closed is terminal and every later
\* read or write returns ErrClosed without touching the socket; an ERR line
\* and a socket write error leave the connection open.
C25_Lifecycle == []C25_Closed /\ [][C25_Step]_vars

\* What holds of the code: the same with io.EOF as the only failure of the
\* socket that closes the connection.
C25_OnEOF ==
    /\ [](wire.kind = "conn" /\ wire.last = "EOF" => wire.closed)
    /\ [][C25_Step]_vars

\* ---------------------------------------------------------------------------
\* Chunk splitting: termination and the target length.

\* C26: for every payload and every cmdMaxBytes, splitText returns (it neither
\* loops for ever nor leaves the string), every chunk it returns is at most
\* cmdMaxBytes/2 bytes long, and every chunk except possibly the last is
\* non-empty; values of cmdMaxBytes below 2 and payloads with a character
\* wider than cmdMaxBytes/2 included.
C26_SplitReturns ==
    wire.kind = "push" =>
        /\ wire.step \notin {"hang", "panic"}
        /\ wire.step \in {"send", "error", "done"} =>
            /\ \A i \in 1..Len(wire.chunks) :
                Len(wire.chunks[i]) <= GoDiv2(wire.cmdMaxBytes)
            /\ \A i \in 1..(Len(wire.chunks) - 1) : wire.chunks[i] # <<>>

\* What holds of splitText whenever it does return: the length bound and the
\* non-empty chunks.
C26_WhenReturned ==
    (wire.kind = "push" /\ wire.step \in {"send", "error", "done"}) =>
        /\ \A i \in 1..Len(wire.chunks) :
            Len(wire.chunks[i]) <= GoDiv2(wire.cmdMaxBytes)
        /\ \A i \in 1..(Len(wire.chunks) - 1) : wire.chunks[i] # <<>>

\* ---------------------------------------------------------------------------
\* Counter consistency.

\* The connections of conns that count against the capacity.
PooledInConns ==
    Cardinality({i \in 1..Len(conns) : connObj[conns[i]].pooled})

\* poolSize and the idle count agree with the collections and the warm-ups
\* in flight, and a Stats snapshot with no warm-up in flight has
\* IdleConns <= TotalConns.
Consistent ==
    /\ poolSize >= 0
    /\ idleConnsLen >= 0
    /\ poolSize = PooledInConns + InFlight
    /\ idleConnsLen = Len(idleConns) + InFlight
    /\ InFlight = 0 => idleConnsLen <= Len(conns)

\* C27: in every reachable state, states after Close included, poolSize is
\* the number of capacity-counted connections of conns plus the warm-ups in
\* flight, the idle count is the length of idleConns plus the warm-ups in
\* flight, neither counter is negative, and a Stats snapshot taken with no
\* warm-up in flight has IdleConns <= TotalConns.
C27_CountersConsistent == Consistent

\* What holds of the counters: they are consistent until the body of Close
\* has run.
C27_UntilShutdown == shutdowns = 0 => Consistent

\* ---------------------------------------------------------------------------
\* Reaper completeness.

\* The reaper is inside ReapStaleConns: a pass is under way.
InPass == reaper.pc \in {"getTurn", "reap", "close"}

\* The pool in use, never closed, with every Put and every warm-up outside
\* the reaper's passes: while a pass is under way callers still run Get and
\* Remove (which frees the turn a waiting pass needs), Put and the warm-up
\* goroutines run before it or after it.
NextQuiet ==
    /\ ~panicked
    /\ \/ \E c \in Callers :
            \/ GetStart(c) \/ waitTurn(c) \/ popIdle(c)
            \/ getDial(c) \/ newConn(c) \/ getFailed(c)
            \/ facadeReturn(c)
            \/ Remove(c)
       \/ ~InPass /\ \E c \in Callers : Put(c) \/ putIdle(c)
       \/ ~InPass /\ WarmStep
       \/ ReaperStep
       \/ tryDial
       \/ Tick
    /\ UNCHANGED wire

SpecQuiet == Init /\ [][NextQuiet]_vars

\* The step that ends a pass leaves no stale connection in idleConns.
C28_Step ==
    (reaper.pc = "reap" /\ reaper'.pc = "wait") =>
        \A i \in 1..Len(idleConns') : ~isStaleConn(idleConns'[i])

\* C28: when a reaper pass ends that no Put and no warm-up ran during, no
\* connection left in idleConns is stale, whatever the order in which the
\* connections entered idleConns and under either staleness rule.
C28_ReaperComplete == [][C28_Step]_vars

====
